---- MODULE Spec2Model ----
(***************************************************************************)
(* A model of src/trie/src.hpp: the copy-on-write Trie (TrieNode,          *)
(* TrieNodeWithValue, Trie::Get/Put/Remove), the ValueGuard and the        *)
(* multi-version TrieStore with its two locks.                             *)
(*                                                                         *)
(* Objects live in two heaps.  `nodes` holds the TrieNode objects and      *)
(* `vals` the T objects owned by shared_ptr<T>; a pointer is the index of  *)
(* the object (0 is nullptr), so reference equality is equality of         *)
(* indices.  An object whose last owner is gone is marked not alive.       *)
(***************************************************************************)
EXTENDS Integers, Sequences, FiniteSets, TLC

\* ---------------------------------------------------------------- bounds
\* Calls of Trie::Put / Trie::Remove made in the sequential Trie specification.
MaxTrieOps == 3
\* Calls of TrieStore::Put / Remove / Get / get_version started in the store
\* specification.
MaxCalls == 3

Chars == {"a", "b"}
Keys == {<<>>, <<"a">>, <<"a", "b">>, <<"b">>}
\* The keys the callers of the TrieStore use.
StoreKeys == {<<>>, <<"a">>, <<"a", "b">>}
Types == {"int", "str"}
Values == {[type |-> "int", v |-> 1], [type |-> "str", v |-> 2]}
Threads == {1, 2}

\* The values std::atomic<size_t> version_ can hold after construction: the
\* member has no initialiser, so it is 0 where the default constructor value-
\* initialises (C++20 library) and arbitrary where it does not.
UninitValues == {0, 99}

NullPtr == 0
NoType == "none"

VARIABLES
  nodes,            \* heap of TrieNode / TrieNodeWithValue objects
  vals,             \* heap of T objects (targets of shared_ptr<T>)
  fault,            \* the process has hit undefined behaviour and died
  tries,            \* Trie values held by a sequential caller of the Trie API
  snapshots_,       \* TrieStore::snapshots_ (sequence of root pointers)
  version_,         \* TrieStore::version_
  write_lock_,      \* TrieStore::write_lock_ : owner thread, or 0
  snapshots_lock_,  \* TrieStore::snapshots_lock_ : exclusive owner and shared owners
  pc,               \* position of each thread
  frame,            \* arguments and locals of the call each thread is in
  ret,              \* the last value each thread's call returned
  log,              \* the mutation appended with each snapshot (history)
  started           \* number of TrieStore calls started so far

vars == <<nodes, vals, fault, tries, snapshots_, version_, write_lock_,
          snapshots_lock_, pc, frame, ret, log, started>>

\* ------------------------------------------------------------ node objects
NoChildren == [c \in Chars |-> NullPtr]

\* TrieNode() / TrieNode(children): is_value_node_ keeps its default, false.
TrieNode(children) ==
  [alive |-> TRUE, children_ |-> children, is_value_node_ |-> FALSE,
   withValue |-> FALSE, vtype |-> NoType, value_ |-> NullPtr]

\* TrieNodeWithValue<T>(children, value): the constructor sets is_value_node_.
TrieNodeWithValue(children, T, value) ==
  [alive |-> TRUE, children_ |-> children, is_value_node_ |-> TRUE,
   withValue |-> TRUE, vtype |-> T, value_ |-> value]

\* The virtual Clone(): TrieNode::Clone for a plain node, TrieNodeWithValue<T>::Clone
\* for a value-bearing one.  Both go through a constructor, so the flag of the
\* copy is the constructor's, not the original's.
Clone(n) ==
  IF n.withValue THEN TrieNodeWithValue(n.children_, n.vtype, n.value_)
  ELSE TrieNode(n.children_)

\* children_.empty()
Empty(children) == \A c \in Chars : children[c] = NullPtr

\* make_shared: the new object gets the next index of its heap.
New(heap, obj) == Append(heap, obj)
Last(heap) == Len(heap)

\* ------------------------------------------------------------- Trie::Get
\* The walk of Trie::Get: the node the key leads to, or nullptr.
RECURSIVE Walk(_, _, _)
Walk(h, cur, key) ==
  IF key = <<>> THEN cur
  ELSE IF cur = NullPtr THEN NullPtr
  ELSE IF h[cur].children_[Head(key)] = NullPtr THEN NullPtr
  ELSE Walk(h, h[cur].children_[Head(key)], Tail(key))

\* Trie::Get<T>(key): the pointer to the value (an index of vals), or nullptr.
TrieGet(h, root, key, T) ==
  LET cur == Walk(h, root, key) IN
  IF cur # NullPtr /\ h[cur].is_value_node_
  THEN IF h[cur].withValue /\ h[cur].vtype = T THEN h[cur].value_ ELSE NullPtr
  ELSE NullPtr

\* ------------------------------------------------------------- Trie::Put
\* A loop that walks into the receiver's own child where there is one, instead
\* of into a clone of it.
RECURSIVE PutLoopNoClone(_, _)
PutLoopNoClone(s, key) ==
  IF key = <<>> THEN s
  ELSE
    LET ch == Head(key)
        it == s.h[s.parent].children_[ch]
        h1 == IF it # NullPtr THEN s.h ELSE New(s.h, TrieNode(NoChildren))
        new_node == IF it # NullPtr THEN it ELSE Last(h1)
        h2 == [h1 EXCEPT ![s.parent].children_[ch] = new_node]
    IN PutLoopNoClone([h |-> h2, parent |-> new_node, pre |-> s.parent, pre_char |-> ch],
                      Tail(key))

\* A loop that makes every node of the path with make_shared<TrieNode>(), also
\* where the receiver has a child to clone.
RECURSIVE PutLoopNewNode(_, _)
PutLoopNewNode(s, key) ==
  IF key = <<>> THEN s
  ELSE
    LET ch == Head(key)
        h1 == New(s.h, TrieNode(NoChildren))
        new_node == Last(h1)
        h2 == [h1 EXCEPT ![s.parent].children_[ch] = new_node]
    IN PutLoopNewNode([h |-> h2, parent |-> new_node, pre |-> s.parent, pre_char |-> ch],
                      Tail(key))

\* The for loop of Trie::Put over the rest of the key.  s carries the heap and
\* the loop's variables parent, pre, pre_char.
RECURSIVE PutLoop(_, _)
PutLoop(s, key) ==
  IF key = <<>> THEN s
  ELSE
    LET ch == Head(key)
        it == s.h[s.parent].children_[ch]
        h1 == New(s.h, IF it # NullPtr THEN Clone(s.h[it]) ELSE TrieNode(NoChildren))
        new_node == Last(h1)
        h2 == [h1 EXCEPT ![s.parent].children_[ch] = new_node]
    IN PutLoop([h |-> h2, parent |-> new_node, pre |-> s.parent, pre_char |-> ch],
               Tail(key))

\* The else branch of Trie::Put: the terminal clone already holds a value.  The
\* dynamic_pointer_cast to TrieNodeWithValue<T> fails when the node holds a value
\* of another type, and then nothing is assigned.
Overwrite(h, v, node, value) ==
  IF h[node].withValue /\ h[node].vtype = value.type
  THEN LET v1 == New(v, [alive |-> TRUE, type |-> value.type, v |-> value.v])
       IN [nodes |-> [h EXCEPT ![node].value_ = Last(v1)], vals |-> v1]
  ELSE [nodes |-> h, vals |-> v]

\* Trie::Put<T>(key, value) on the Trie with root `root`.  The result is the
\* two heaps, the root of the returned Trie, and whether the call faulted
\* (pre is nullptr when the key is empty, and is dereferenced).
TriePut(h, v, root, key, value) ==
  LET h0 == New(h, IF root # NullPtr THEN Clone(h[root]) ELSE TrieNode(NoChildren))
      new_root == Last(h0)
      s == PutLoop([h |-> h0, parent |-> new_root, pre |-> NullPtr, pre_char |-> "a"], key)
      v1 == New(v, [alive |-> TRUE, type |-> value.type, v |-> value.v])
      valuePtr == Last(v1)
  IN
  IF ~s.h[s.parent].is_value_node_
  THEN IF s.pre = NullPtr
       THEN [nodes |-> h, vals |-> v, root |-> root, fault |-> TRUE]
       ELSE LET h3 == New(s.h, TrieNodeWithValue(s.h[s.parent].children_, value.type, valuePtr))
            IN [nodes |-> [h3 EXCEPT ![s.pre].children_[s.pre_char] = Last(h3)],
                vals |-> v1, root |-> new_root, fault |-> FALSE]
  ELSE LET o == Overwrite(s.h, v, s.parent, value)
       IN [nodes |-> o.nodes, vals |-> o.vals, root |-> new_root, fault |-> FALSE]

\* ----------------------------------------------------------- Trie::Remove
\* A loop that walks into the receiver's own child instead of into a clone.
RECURSIVE RemoveLoopNoClone(_, _)
RemoveLoopNoClone(s, key) ==
  IF key = <<>> THEN s
  ELSE
    LET ch == Head(key)
        it == s.h[s.parent].children_[ch]
    IN IF it = NullPtr THEN [s EXCEPT !.missing = TRUE]
       ELSE RemoveLoopNoClone([h |-> s.h, parent |-> it,
                               path |-> Append(s.path, <<s.parent, ch>>),
                               missing |-> FALSE], Tail(key))

\* The for loop of Trie::Remove.  s carries the heap, parent, the recorded path
\* (pairs <<node, char>>) and `missing`, set when the loop returned *this.
RECURSIVE RemoveLoop(_, _)
RemoveLoop(s, key) ==
  IF key = <<>> THEN s
  ELSE
    LET ch == Head(key)
        it == s.h[s.parent].children_[ch]
    IN IF it = NullPtr THEN [s EXCEPT !.missing = TRUE]
       ELSE LET h1 == New(s.h, Clone(s.h[it]))
                new_node == Last(h1)
                h2 == [h1 EXCEPT ![s.parent].children_[ch] = new_node]
            IN RemoveLoop([h |-> h2, parent |-> new_node,
                           path |-> Append(s.path, <<s.parent, ch>>),
                           missing |-> FALSE], Tail(key))

\* path.pop_back()
PopBack(path) == SubSeq(path, 1, Len(path) - 1)

\* The while loop of Trie::Remove: walk the recorded path back up, erasing each
\* child that is valueless and childless, and stop at the first that is not.
RECURSIVE Prune(_, _)
Prune(h, path) ==
  IF path = <<>> THEN h
  ELSE
    LET node == path[Len(path)][1]
        ch == path[Len(path)][2]
        child == h[node].children_[ch]
    IN IF child = NullPtr THEN Prune(h, PopBack(path))
       ELSE IF ~h[child].is_value_node_ /\ Empty(h[child].children_)
            THEN Prune([h EXCEPT ![node].children_[ch] = NullPtr], PopBack(path))
            ELSE h

\* Trie::Remove(key) on the Trie with root `root`: the heap, the root of the
\* returned Trie (the receiver's own root where the code returns *this) and
\* whether the call faulted (pop_back on an empty path).
TrieRemove(h, root, key) ==
  IF root = NullPtr THEN [nodes |-> h, root |-> root, fault |-> FALSE]
  ELSE
    LET h0 == New(h, Clone(h[root]))
        new_root == Last(h0)
        s == RemoveLoop([h |-> h0, parent |-> new_root, path |-> <<>>, missing |-> FALSE], key)
    IN
    IF s.missing THEN [nodes |-> s.h, root |-> root, fault |-> FALSE]
    ELSE IF ~s.h[s.parent].is_value_node_ THEN [nodes |-> s.h, root |-> root, fault |-> FALSE]
    ELSE
      LET h1 == [s.h EXCEPT ![s.parent].is_value_node_ = FALSE] IN
      IF Empty(h1[s.parent].children_)
      THEN IF s.path = <<>>
           THEN [nodes |-> h, root |-> root, fault |-> TRUE]
           ELSE [nodes |-> Prune(h1, PopBack(s.path)), root |-> new_root, fault |-> FALSE]
      ELSE
        LET h2 == New(h1, TrieNode(h1[s.parent].children_))
            parent == Last(h2)
        IN IF s.path # <<>>
           THEN LET prev == s.path[Len(s.path)][1]
                    prev_char == s.path[Len(s.path)][2]
                    h3 == [h2 EXCEPT ![prev].children_[prev_char] = parent]
                IN [nodes |-> Prune(h3, s.path), root |-> new_root, fault |-> FALSE]
           ELSE [nodes |-> h2, root |-> parent, fault |-> FALSE]

\* ------------------------------------------------------- object lifetimes
\* The nodes a set of root pointers keeps alive (owned through children_).
RECURSIVE Reach(_, _, _)
Reach(h, seen, frontier) ==
  IF frontier = {} THEN seen
  ELSE LET next == {h[n].children_[c] : n \in frontier, c \in Chars} \ ({NullPtr} \cup seen \cup frontier)
       IN Reach(h, seen \cup frontier, next)

Reachable(h, roots) == Reach(h, {}, roots \ {NullPtr})

\* The end of a call: every shared_ptr local to it is gone, and a node no Trie
\* owns any more is destroyed, and then a value no node owns.
Release(h, roots) ==
  LET live == Reachable(h, roots)
  IN [i \in 1..Len(h) |-> IF i \in live THEN h[i] ELSE [h[i] EXCEPT !.alive = FALSE]]

ReleaseVals(h, v) ==
  LET owned == {h[i].value_ : i \in {j \in 1..Len(h) : h[j].alive}}
  IN [i \in 1..Len(v) |-> IF i \in owned THEN v[i] ELSE [v[i] EXCEPT !.alive = FALSE]]

\* ------------------------------------------- the Trie API, called directly
\* A sequential caller keeps every Trie it was handed; tries[i] is the root of
\* the i-th, with the call that made it (op, the index `from` of the receiver,
\* key, value).
NoValue == [type |-> NoType, v |-> 0]
EmptyTrie == [root |-> NullPtr, op |-> "new", from |-> 0, key |-> <<>>, value |-> NoValue]

\* Every root pointer some Trie object holds: the caller's, the store's
\* snapshots, and the Tries in the frames of running calls and in guards.
Roots(ts, snaps, fr, rt) ==
  {ts[i].root : i \in 1..Len(ts)} \cup {snaps[i] : i \in 1..Len(snaps)}
    \cup {fr[t].trie : t \in Threads} \cup {rt[t].guard_root : t \in Threads}

StoreIdle ==
  UNCHANGED <<snapshots_, version_, write_lock_, snapshots_lock_, pc, frame, ret, log, started>>

\* t2 = tries[i].Put<T>(k, value)
CallTriePut(i, k, value) ==
  /\ ~fault
  /\ Len(tries) <= MaxTrieOps
  /\ LET r == TriePut(nodes, vals, tries[i].root, k, value)
         ts == Append(tries, [root |-> r.root, op |-> "Put", from |-> i, key |-> k, value |-> value])
     IN IF r.fault
        THEN fault' = TRUE /\ UNCHANGED <<nodes, vals, tries>>
        ELSE /\ tries' = ts
             /\ nodes' = Release(r.nodes, Roots(ts, snapshots_, frame, ret))
             /\ vals' = ReleaseVals(nodes', r.vals)
             /\ fault' = FALSE
  /\ StoreIdle

\* t2 = tries[i].Remove(k)
CallTrieRemove(i, k) ==
  /\ ~fault
  /\ Len(tries) <= MaxTrieOps
  /\ LET r == TrieRemove(nodes, tries[i].root, k)
         ts == Append(tries, [root |-> r.root, op |-> "Remove", from |-> i, key |-> k, value |-> NoValue])
     IN IF r.fault
        THEN fault' = TRUE /\ UNCHANGED <<nodes, vals, tries>>
        ELSE /\ tries' = ts
             /\ nodes' = Release(r.nodes, Roots(ts, snapshots_, frame, ret))
             /\ vals' = ReleaseVals(nodes', vals)
             /\ fault' = FALSE
  /\ StoreIdle

\* ------------------------------------------------------------ construction
\* frame: the arguments key and value of the Put or Remove a thread is in, and
\* its local Trie (old_trie, then new_trie).  ret: what the thread's last call
\* returned: a version number, or the optional<ValueGuard> of a Get (the guard's
\* root_ and value_, and `seen`, the value read through it on return).
NoFrame == [key |-> <<>>, value |-> NoValue, trie |-> NullPtr]
NoRet == [op |-> "none", version |-> 0, found |-> FALSE, guard_root |-> NullPtr,
          guard_value |-> NullPtr, seen |-> NoValue]

\* Both heaps empty, one empty Trie (Trie() = default) in the caller's hands, and
\* no thread in a call.
NoObjects ==
  /\ nodes = <<>>
  /\ vals = <<>>
  /\ fault = FALSE
  /\ tries = <<EmptyTrie>>
  /\ snapshots_ = <<NullPtr>>
  /\ write_lock_ = 0
  /\ snapshots_lock_ = [writer |-> 0, readers |-> {}]
  /\ pc = [t \in Threads |-> "idle"]
  /\ frame = [t \in Threads |-> NoFrame]
  /\ ret = [t \in Threads |-> NoRet]
  /\ log = <<>>
  /\ started = 0

\* No TrieStore is in use: its counter is taken as 0.
TrieInit == NoObjects /\ version_ = 0

\* TrieStore(): snapshots_{1} is one empty Trie; version_ has no initialiser.
Init == NoObjects /\ version_ \in UninitValues

TrieNext ==
  \/ \E i \in 1..Len(tries), k \in Keys, value \in Values : CallTriePut(i, k, value)
  \/ \E i \in 1..Len(tries), k \in Keys : CallTrieRemove(i, k)

\* The Trie API under a sequential caller.
SpecTrie == TrieInit /\ [][TrieNext]_vars

\* ------------------------------------------------------------- TrieStore
\* Each thread is in at most one call; pc is the statement it is about to run.
\* The arguments of a call are drawn where the call first uses them.  A block
\* { lock; body } is two steps: taking the lock, and the body with the end of
\* the block, where the lock's destructor releases it.
TrieIdle == UNCHANGED tries

\* std::shared_lock / std::unique_lock on snapshots_lock_ and their destructors.
LockShared(t) ==
  /\ snapshots_lock_.writer = 0
  /\ snapshots_lock_' = [snapshots_lock_ EXCEPT !.readers = @ \cup {t}]
UnlockShared(t) ==
  snapshots_lock_' = [snapshots_lock_ EXCEPT !.readers = @ \ {t}]
LockUnique(t) ==
  /\ snapshots_lock_.writer = 0
  /\ snapshots_lock_.readers = {}
  /\ snapshots_lock_' = [snapshots_lock_ EXCEPT !.writer = t]
UnlockUnique(t) ==
  snapshots_lock_' = [snapshots_lock_ EXCEPT !.writer = 0]

\* snapshots_.back()
Back(snaps) == snaps[Len(snaps)]

\* TrieStore::get_version(): version_.load()
get_version == version_

\* A thread enters TrieStore::Put, TrieStore::Remove or TrieStore::Get.
Call(t, op) ==
  /\ ~fault /\ pc[t] = "idle"
  /\ started < MaxCalls
  /\ started' = started + 1
  /\ pc' = [pc EXCEPT ![t] = CASE op = "Put" -> "put_write_lock"
                               [] op = "Remove" -> "remove_write_lock"
                               [] op = "Get" -> "get_shared_lock"]
  /\ UNCHANGED <<nodes, vals, fault, snapshots_, version_, write_lock_, snapshots_lock_,
                 frame, ret, log>>
  /\ TrieIdle

\* A writer that goes on without waiting for write_lock_ to be free.
LockWriteNoWait(t) ==
  /\ ~fault /\ pc[t] \in {"put_write_lock", "remove_write_lock"}
  /\ write_lock_' = t
  /\ pc' = [pc EXCEPT ![t] = IF pc[t] = "put_write_lock" THEN "put_shared_lock"
                                                      ELSE "remove_shared_lock"]
  /\ UNCHANGED <<nodes, vals, fault, snapshots_, version_, snapshots_lock_, frame, ret,
                 log, started>>
  /\ UNCHANGED tries

\* std::lock_guard<std::mutex> w_lock(write_lock_), in Put and in Remove.
LockWrite(t) ==
  /\ ~fault /\ pc[t] \in {"put_write_lock", "remove_write_lock"}
  /\ write_lock_ = 0
  /\ write_lock_' = t
  /\ pc' = [pc EXCEPT ![t] = IF pc[t] = "put_write_lock" THEN "put_shared_lock"
                                                      ELSE "remove_shared_lock"]
  /\ UNCHANGED <<nodes, vals, fault, snapshots_, version_, snapshots_lock_, frame, ret,
                 log, started>>
  /\ TrieIdle

\* Put: std::shared_lock read_lock(snapshots_lock_)
PutLockShared(t) ==
  /\ ~fault /\ pc[t] = "put_shared_lock"
  /\ LockShared(t)
  /\ pc' = [pc EXCEPT ![t] = "put_back"]
  /\ UNCHANGED <<nodes, vals, fault, snapshots_, version_, write_lock_, frame, ret, log, started>>
  /\ TrieIdle

\* A Put whose lock on snapshots_lock_ is exclusive and outlives the block, so
\* that Trie::Put runs under it.
PutBackExclusive(t) ==
  /\ ~fault /\ pc[t] = "put_back"
  /\ frame' = [frame EXCEPT ![t].trie = Back(snapshots_)]
  /\ snapshots_lock_' = [writer |-> t, readers |-> snapshots_lock_.readers \ {t}]
  /\ pc' = [pc EXCEPT ![t] = "put_compute"]
  /\ UNCHANGED <<nodes, vals, fault, snapshots_, version_, write_lock_, ret, log, started>>
  /\ UNCHANGED tries

\* Put: old_trie = snapshots_.back(), and the end of the block
PutBack(t) ==
  /\ ~fault /\ pc[t] = "put_back"
  /\ frame' = [frame EXCEPT ![t].trie = Back(snapshots_)]
  /\ UnlockShared(t)
  /\ pc' = [pc EXCEPT ![t] = "put_compute"]
  /\ UNCHANGED <<nodes, vals, fault, snapshots_, version_, write_lock_, ret, log, started>>
  /\ TrieIdle

\* Put: Trie new_trie = old_trie.Put(key, std::move(value))
PutCompute(t, key, value) ==
  /\ ~fault /\ pc[t] = "put_compute"
  /\ LET r == TriePut(nodes, vals, frame[t].trie, key, value)
         fr == [frame EXCEPT ![t] = [NoFrame EXCEPT !.key = key, !.value = value, !.trie = r.root]]
     IN IF r.fault
        THEN fault' = TRUE /\ UNCHANGED <<nodes, vals, frame, pc>>
        ELSE /\ nodes' = Release(r.nodes, Roots(tries, snapshots_, fr, ret))
             /\ vals' = ReleaseVals(nodes', r.vals)
             /\ frame' = fr
             /\ pc' = [pc EXCEPT ![t] = "put_unique_lock"]
             /\ fault' = FALSE
  /\ UNCHANGED <<snapshots_, version_, write_lock_, snapshots_lock_, ret, log, started>>
  /\ TrieIdle

\* Put: std::unique_lock write_lock(snapshots_lock_)
PutLockUnique(t) ==
  /\ ~fault /\ pc[t] = "put_unique_lock"
  /\ LockUnique(t)
  /\ pc' = [pc EXCEPT ![t] = "put_push_back"]
  /\ UNCHANGED <<nodes, vals, fault, snapshots_, version_, write_lock_, frame, ret, log, started>>
  /\ TrieIdle

\* A Put that stores new_trie over the newest entry instead of appending it.
PutOverwriteBack(t) ==
  /\ ~fault /\ pc[t] = "put_push_back"
  /\ snapshots_' = [snapshots_ EXCEPT ![Len(snapshots_)] = frame[t].trie]
  /\ log' = Append(log, [op |-> "Put", key |-> frame[t].key, value |-> frame[t].value])
  /\ UnlockUnique(t)
  /\ pc' = [pc EXCEPT ![t] = "put_return"]
  /\ UNCHANGED <<nodes, vals, fault, version_, write_lock_, frame, ret, started>>
  /\ UNCHANGED tries

\* Put: snapshots_.push_back(std::move(new_trie)), and the end of the block
PutPushBack(t) ==
  /\ ~fault /\ pc[t] = "put_push_back"
  /\ snapshots_' = Append(snapshots_, frame[t].trie)
  /\ log' = Append(log, [op |-> "Put", key |-> frame[t].key, value |-> frame[t].value])
  /\ UnlockUnique(t)
  /\ pc' = [pc EXCEPT ![t] = "put_return"]
  /\ UNCHANGED <<nodes, vals, fault, version_, write_lock_, frame, ret, started>>
  /\ TrieIdle

\* Put: return get_version(); w_lock and the local Tries go out of scope.
PutReturn(t) ==
  /\ ~fault /\ pc[t] = "put_return"
  /\ ret' = [ret EXCEPT ![t] = [NoRet EXCEPT !.op = "Put", !.version = get_version]]
  /\ write_lock_' = 0
  /\ frame' = [frame EXCEPT ![t] = NoFrame]
  /\ pc' = [pc EXCEPT ![t] = "idle"]
  /\ nodes' = Release(nodes, Roots(tries, snapshots_, frame', ret'))
  /\ vals' = ReleaseVals(nodes', vals)
  /\ UNCHANGED <<fault, snapshots_, version_, snapshots_lock_, log, started>>
  /\ TrieIdle

\* Remove: std::shared_lock read_lock(snapshots_lock_)
RemoveLockShared(t) ==
  /\ ~fault /\ pc[t] = "remove_shared_lock"
  /\ LockShared(t)
  /\ pc' = [pc EXCEPT ![t] = "remove_compute"]
  /\ UNCHANGED <<nodes, vals, fault, snapshots_, version_, write_lock_, frame, ret, log, started>>
  /\ TrieIdle

\* Remove: new_trie = snapshots_.back().Remove(key), and the end of the block
RemoveCompute(t, key) ==
  /\ ~fault /\ pc[t] = "remove_compute"
  /\ LET r == TrieRemove(nodes, Back(snapshots_), key)
         fr == [frame EXCEPT ![t] = [NoFrame EXCEPT !.key = key, !.trie = r.root]]
     IN IF r.fault
        THEN fault' = TRUE /\ UNCHANGED <<nodes, vals, frame, pc, snapshots_lock_>>
        ELSE /\ nodes' = Release(r.nodes, Roots(tries, snapshots_, fr, ret))
             /\ vals' = ReleaseVals(nodes', vals)
             /\ frame' = fr
             /\ UnlockShared(t)
             /\ pc' = [pc EXCEPT ![t] = "remove_unique_lock"]
             /\ fault' = FALSE
  /\ UNCHANGED <<snapshots_, version_, write_lock_, ret, log, started>>
  /\ TrieIdle

\* Remove: std::unique_lock write_lock(snapshots_lock_)
RemoveLockUnique(t) ==
  /\ ~fault /\ pc[t] = "remove_unique_lock"
  /\ LockUnique(t)
  /\ pc' = [pc EXCEPT ![t] = "remove_push_back"]
  /\ UNCHANGED <<nodes, vals, fault, snapshots_, version_, write_lock_, frame, ret, log, started>>
  /\ TrieIdle

\* Remove: if (new_trie != snapshots_.back()) snapshots_.push_back(new_trie),
\* and the end of the block
RemovePushBack(t) ==
  /\ ~fault /\ pc[t] = "remove_push_back"
  /\ IF frame[t].trie # Back(snapshots_)
     THEN /\ snapshots_' = Append(snapshots_, frame[t].trie)
          /\ log' = Append(log, [op |-> "Remove", key |-> frame[t].key, value |-> NoValue])
     ELSE UNCHANGED <<snapshots_, log>>
  /\ UnlockUnique(t)
  /\ pc' = [pc EXCEPT ![t] = "remove_return"]
  /\ UNCHANGED <<nodes, vals, fault, version_, write_lock_, frame, ret, started>>
  /\ TrieIdle

\* Remove: return get_version(); w_lock and new_trie go out of scope.
RemoveReturn(t) ==
  /\ ~fault /\ pc[t] = "remove_return"
  /\ ret' = [ret EXCEPT ![t] = [NoRet EXCEPT !.op = "Remove", !.version = get_version]]
  /\ write_lock_' = 0
  /\ frame' = [frame EXCEPT ![t] = NoFrame]
  /\ pc' = [pc EXCEPT ![t] = "idle"]
  /\ nodes' = Release(nodes, Roots(tries, snapshots_, frame', ret'))
  /\ vals' = ReleaseVals(nodes', vals)
  /\ UNCHANGED <<fault, snapshots_, version_, snapshots_lock_, log, started>>
  /\ TrieIdle

\* A Get that goes on to read snapshots_ without taking snapshots_lock_.
GetNoLock(t) ==
  /\ ~fault /\ pc[t] = "get_shared_lock"
  /\ pc' = [pc EXCEPT ![t] = "get_lookup"]
  /\ UNCHANGED <<nodes, vals, fault, snapshots_, version_, write_lock_, snapshots_lock_,
                 frame, ret, log, started>>
  /\ UNCHANGED tries

\* Get: std::shared_lock lock(snapshots_lock_)
GetLockShared(t) ==
  /\ ~fault /\ pc[t] = "get_shared_lock"
  /\ LockShared(t)
  /\ pc' = [pc EXCEPT ![t] = "get_lookup"]
  /\ UNCHANGED <<nodes, vals, fault, snapshots_, version_, write_lock_, frame, ret, log, started>>
  /\ TrieIdle

\* The greatest size_t (the model's size_t has 31 bits).  It is what the default
\* argument -1 of Get converts to, and what `version == -1` compares with.
SIZE_MAX == 2147483647

\* The version Get reads: if (version == -1) version = snapshots_.size() - 1.
Resolve(snaps, version) == IF version = SIZE_MAX THEN Len(snaps) - 1 ELSE version

\* The body of TrieStore::Get<T>(key, version) under the shared lock: what it
\* returns, std::nullopt (found = FALSE) or a ValueGuard holding a copy of the
\* snapshot and a reference to the value.
StoreGet(h, v, snaps, key, version, T) ==
  LET at == Resolve(snaps, version)
      res == IF at >= Len(snaps) THEN NullPtr ELSE TrieGet(h, snaps[at + 1], key, T)
  IN IF res = NullPtr THEN [NoRet EXCEPT !.op = "Get"]
     ELSE [NoRet EXCEPT !.op = "Get", !.found = TRUE, !.guard_root = snaps[at + 1],
                        !.guard_value = res, !.seen = [type |-> v[res].type, v |-> v[res].v]]

\* Get: the lookup and the return.  The shared lock goes out of scope, and a
\* guard the caller held from an earlier call is dropped for the new result.
GetLookup(t, key, version, T) ==
  /\ ~fault /\ pc[t] = "get_lookup"
  /\ ret' = [ret EXCEPT ![t] = StoreGet(nodes, vals, snapshots_, key, version, T)]
  /\ UnlockShared(t)
  /\ pc' = [pc EXCEPT ![t] = "idle"]
  /\ nodes' = Release(nodes, Roots(tries, snapshots_, frame, ret'))
  /\ vals' = ReleaseVals(nodes', vals)
  /\ UNCHANGED <<fault, snapshots_, version_, write_lock_, frame, log, started>>
  /\ TrieIdle

\* TrieStore::get_version() called from outside: one atomic load.
CallGetVersion(t) ==
  /\ ~fault /\ pc[t] = "idle"
  /\ started < MaxCalls
  /\ started' = started + 1
  /\ ret' = [ret EXCEPT ![t] = [NoRet EXCEPT !.op = "get_version", !.version = get_version]]
  /\ nodes' = Release(nodes, Roots(tries, snapshots_, frame, ret'))
  /\ vals' = ReleaseVals(nodes', vals)
  /\ UNCHANGED <<fault, snapshots_, version_, write_lock_, snapshots_lock_, pc, frame, log>>
  /\ TrieIdle

\* The version arguments of Get: every index up to one past the longest
\* sequence, and SIZE_MAX, which is also what a call without the argument passes.
VersionArgs == {SIZE_MAX} \cup (0..(MaxCalls + 1))

Next ==
  \/ \E t \in Threads, op \in {"Put", "Remove", "Get"} : Call(t, op)
  \/ \E t \in Threads : LockWrite(t)
  \/ \E t \in Threads : PutLockShared(t)
  \/ \E t \in Threads : PutBack(t)
  \/ \E t \in Threads, key \in StoreKeys, value \in Values : PutCompute(t, key, value)
  \/ \E t \in Threads : PutLockUnique(t)
  \/ \E t \in Threads : PutPushBack(t)
  \/ \E t \in Threads : PutReturn(t)
  \/ \E t \in Threads : RemoveLockShared(t)
  \/ \E t \in Threads, key \in StoreKeys : RemoveCompute(t, key)
  \/ \E t \in Threads : RemoveLockUnique(t)
  \/ \E t \in Threads : RemovePushBack(t)
  \/ \E t \in Threads : RemoveReturn(t)
  \/ \E t \in Threads : GetLockShared(t)
  \/ \E t \in Threads, key \in StoreKeys, version \in VersionArgs, T \in Types :
        GetLookup(t, key, version, T)
  \/ \E t \in Threads : CallGetVersion(t)

\* The TrieStore under concurrent callers.
Spec == Init /\ [][Next]_vars

\* The steps a thread takes inside a call it has started.
InCall(t) ==
  \/ LockWrite(t)
  \/ PutLockShared(t)
  \/ PutBack(t)
  \/ \E key \in StoreKeys, value \in Values : PutCompute(t, key, value)
  \/ PutLockUnique(t)
  \/ PutPushBack(t)
  \/ PutReturn(t)
  \/ RemoveLockShared(t)
  \/ \E key \in StoreKeys : RemoveCompute(t, key)
  \/ RemoveLockUnique(t)
  \/ RemovePushBack(t)
  \/ RemoveReturn(t)
  \/ GetLockShared(t)
  \/ \E key \in StoreKeys, version \in VersionArgs, T \in Types : GetLookup(t, key, version, T)

\* The TrieStore under a fair scheduler: a thread that can go on inside its call
\* does go on.  (Callers are free to make no further call.)
FairSpec == Spec /\ \A t \in Threads : WF_vars(InCall(t))

\* ================================================================ claims
\* What a caller sees of key under type T in the Trie with this root: the
\* pointer Get returns, and the value and liveness of the object it points to.
Lookup(h, v, root, key, T) ==
  LET p == TrieGet(h, root, key, T)
  IN IF p = NullPtr THEN [ptr |-> NullPtr, value |-> NoValue, alive |-> FALSE]
     ELSE [ptr |-> p, value |-> [type |-> v[p].type, v |-> v[p].v], alive |-> v[p].alive]

\* The key holds no value in the Trie: no Get<T> finds one.
Absent(h, root, key) == \A T \in Types : TrieGet(h, root, key, T) = NullPtr

\* The reference map after the first n logged mutations, applied in order to
\* the empty map (NoValue: no entry).
RECURSIVE RefMap(_)
RefMap(n) ==
  IF n = 0 THEN [k \in StoreKeys |-> NoValue]
  ELSE LET m == RefMap(n - 1)
           e == log[n]
       IN IF e.op = "Put" THEN [m EXCEPT ![e.key] = e.value]
          ELSE [m EXCEPT ![e.key] = NoValue]

\* A typed read of the reference map.
RefGet(n, key, T) ==
  IF RefMap(n)[key].type = T THEN RefMap(n)[key] ELSE NoValue

\* C1: every version-qualified Get agrees with the reference map: for each
\* committed version ver, key and type, Get(key, ver) finds exactly the value
\* the map holds after the mutations of snapshots 1..ver (nothing when the map
\* has no entry), and the default version reads the newest snapshot.
C1_ReadsAgreeWithMap ==
  \A key \in StoreKeys, T \in Types :
    /\ \A ver \in 0..(Len(snapshots_) - 1) :
         LET g == StoreGet(nodes, vals, snapshots_, key, ver, T)
         IN /\ g.found = (RefGet(ver, key, T) # NoValue)
            /\ g.seen = RefGet(ver, key, T)
    /\ StoreGet(nodes, vals, snapshots_, key, SIZE_MAX, T)
         = StoreGet(nodes, vals, snapshots_, key, Len(snapshots_) - 1, T)

\* C2: persistence.  No call of Put or Remove, on any Trie the caller holds,
\* changes what any Trie the caller already holds returns for any key: the same
\* pointer, to the same value, still alive.
C2_Persistence ==
  [][\A i \in 1..Len(tries) : \A key \in Keys, T \in Types :
       Lookup(nodes', vals', tries[i].root, key, T) = Lookup(nodes, vals, tries[i].root, key, T)]_vars

\* C2 witness: a Trie that holds a value for a key, a Trie made from it by a
\* Put or Remove of that very key, and a third made from that one.
C2_Witness ==
  \E i, j, l \in 1..Len(tries) :
    /\ tries[j].from = i /\ tries[l].from = j
    /\ tries[j].op \in {"Put", "Remove"} /\ tries[l].op \in {"Put", "Remove"}
    /\ tries[j].root # tries[i].root
    /\ ~Absent(nodes, tries[i].root, tries[j].key)

\* C3: round trip.  No Put faults, and the Trie a Put(k, v) returned holds v
\* for k (read at v's type).
C3_RoundTrip ==
  /\ ~fault
  /\ \A i \in 1..Len(tries) :
       tries[i].op = "Put" =>
         Lookup(nodes, vals, tries[i].root, tries[i].key, tries[i].value.type).value
           = tries[i].value

\* C4: Put and Remove touch only their own key: every other key reads the same
\* in the Trie a call returned as in the Trie it was called on.
C4_OtherKeysUntouched ==
  \A i \in 1..Len(tries) :
    tries[i].op \in {"Put", "Remove"} =>
      \A key \in Keys \ {tries[i].key}, T \in Types :
        Lookup(nodes, vals, tries[i].root, key, T)
          = Lookup(nodes, vals, tries[tries[i].from].root, key, T)

\* The terminal node of the key in the Trie, or nullptr where the path ends early.
Terminal(h, root, key) == Walk(h, root, key)

\* C5: a Remove of a key whose path is missing, or whose terminal node carries
\* no value (its flag is clear), returns the receiver: the same root.
C5_NoOpRemoveReturnsReceiver ==
  \A i \in 1..Len(tries) :
    LET recv == tries[tries[i].from].root
        term == Terminal(nodes, recv, tries[i].key)
    IN (tries[i].op = "Remove" /\ (term = NullPtr \/ ~nodes[term].is_value_node_))
         => tries[i].root = recv

\* C6: idempotent remove: the Remove(k) of a Trie that a Remove(k) returned
\* returns that same Trie.
C6_IdempotentRemove ==
  \A i \in 1..Len(tries) :
    (/\ tries[i].op = "Remove"
     /\ tries[tries[i].from].op = "Remove"
     /\ tries[tries[i].from].key = tries[i].key)
      => tries[i].root = tries[tries[i].from].root

\* C7: a Put about to return has appended its snapshot as the newest one,
\* returns that snapshot's index, and a Get of its key at the returned version
\* yields its value.
C7_PutReturnsNewIndex ==
  \A t \in Threads :
    pc[t] = "put_return" =>
      /\ get_version = Len(snapshots_) - 1
      /\ Back(snapshots_) = frame[t].trie
      /\ StoreGet(nodes, vals, snapshots_, frame[t].key, get_version, frame[t].value.type).seen
           = frame[t].value

\* No thread is inside a call.
Quiescent == \A t \in Threads : pc[t] = "idle"

\* C8: between calls get_version() is the index of the newest snapshot (0 on
\* a fresh store, one more with every snapshot appended).
C8_VersionIsNewestIndex ==
  Quiescent => get_version = Len(snapshots_) - 1

\* C9: a Remove of a key that holds no value in the newest snapshot appends
\* no snapshot and leaves the version number as it was.
C9_NoOpStoreRemove ==
  [][\A t \in Threads :
       (/\ pc[t] = "remove_push_back" /\ pc'[t] = "remove_return"
        /\ Absent(nodes, Back(snapshots_), frame[t].key))
         => (snapshots_' = snapshots_ /\ get_version' = get_version)]_vars

\* The thread holds a guard.
HoldsGuard(t) == ret[t].op = "Get" /\ ret[t].found

\* C10: while a guard is held, the value it refers to stays alive and is the
\* value seen when the guard was returned, every node of the snapshot it holds
\* stays alive, and no step changes any of these nodes or the value.
C10_GuardIsolation ==
  /\ [](\A t \in Threads : HoldsGuard(t) =>
          /\ vals[ret[t].guard_value].alive
          /\ [type |-> vals[ret[t].guard_value].type, v |-> vals[ret[t].guard_value].v]
               = ret[t].seen
          /\ \A n \in Reachable(nodes, {ret[t].guard_root}) : nodes[n].alive)
  /\ [][\A t \in Threads : (HoldsGuard(t) /\ ret'[t] = ret[t]) =>
          /\ vals'[ret[t].guard_value] = vals[ret[t].guard_value]
          /\ \A n \in Reachable(nodes, {ret[t].guard_root}) : nodes'[n] = nodes[n]]_vars

\* C10 witness: a guard for a key at a version that is no longer the newest,
\* with a later Put or Remove of that key committed.
C10_Witness ==
  \E t \in Threads, ver \in 1..Len(snapshots_), later \in 1..Len(log) :
    /\ HoldsGuard(t)
    /\ snapshots_[ver] = ret[t].guard_root
    /\ later >= ver
    /\ TrieGet(nodes, ret[t].guard_root, log[later].key, ret[t].seen.type) = ret[t].guard_value

\* The thread is inside Put or Remove past the lock_guard on write_lock_.
Writing(t) ==
  pc[t] \in {"put_shared_lock", "put_back", "put_compute", "put_unique_lock", "put_push_back",
             "put_return", "remove_shared_lock", "remove_compute", "remove_unique_lock",
             "remove_push_back", "remove_return"}

\* The thread has read the newest snapshot and has not yet appended.
ReadNotAppended(t) ==
  pc[t] \in {"put_compute", "put_unique_lock", "put_push_back",
             "remove_unique_lock", "remove_push_back"}

\* The last committed mutation of the key is a Put.
LastIsPut(key) ==
  \E n \in 1..Len(log) :
    /\ log[n].op = "Put" /\ log[n].key = key
    /\ \A m \in (n + 1)..Len(log) : log[m].key # key

\* C11: no lost update.  At most one thread is inside the writers' section;
\* the sequence has grown by one entry per committed mutation; every key whose
\* last committed mutation is a Put is contained in the newest snapshot; and
\* while a writer is between its read of the newest snapshot and its append,
\* the sequence changes only by that writer's own append, so the Trie it
\* appends was computed from the entry just before it.
C11_NoLostUpdate ==
  /\ [](/\ \A t, u \in Threads : (Writing(t) /\ Writing(u)) => t = u
        /\ Len(snapshots_) = Len(log) + 1
        /\ \A key \in StoreKeys : LastIsPut(key) => ~Absent(nodes, Back(snapshots_), key))
  /\ [][\A t \in Threads :
          (ReadNotAppended(t) /\ snapshots_' # snapshots_) =>
            /\ pc[t] \in {"put_push_back", "remove_push_back"} /\ pc'[t] # pc[t]
            /\ snapshots_' = Append(snapshots_, frame[t].trie)]_vars

\* C11 witness: two Puts of distinct keys are committed, the thread of the
\* second is about to return, the other thread is waiting for write_lock_, and
\* the newest snapshot holds both keys.
C11_Witness ==
  \E t, u \in Threads :
    /\ pc[t] = "put_return" /\ pc[u] \in {"put_write_lock", "remove_write_lock"}
    /\ Len(log) = 2 /\ log[1].op = "Put" /\ log[2].op = "Put" /\ log[1].key # log[2].key
    /\ ~Absent(nodes, Back(snapshots_), log[1].key)
    /\ ~Absent(nodes, Back(snapshots_), log[2].key)

\* The roots of the committed snapshots.
Committed == {snapshots_[i] : i \in 1..Len(snapshots_)}

\* The thread has computed a new Trie that it has not appended: a Put's
\* new_trie, or a Remove's where Remove did not return the receiver.
Unpublished(u) ==
  /\ pc[u] \in {"put_unique_lock", "put_push_back", "remove_unique_lock", "remove_push_back"}
  /\ frame[u].trie # Back(snapshots_)

\* C12: atomic publication.  A Get reads snapshots_ only while it holds the
\* lock shared and nobody holds it exclusive; the step in which it reads leaves
\* the sequence alone and returns the lookup in the sequence as it stands; a
\* guard holds a committed snapshot; and the Trie a writer has computed and not
\* yet appended is no committed snapshot, is reachable from none, and is in no
\* guard.
C12_AtomicPublication ==
  /\ [](/\ snapshots_lock_.writer # 0 => snapshots_lock_.readers = {}
        /\ \A t \in Threads :
             pc[t] = "get_lookup" => (snapshots_lock_.writer = 0 /\ t \in snapshots_lock_.readers)
        /\ \A t \in Threads : HoldsGuard(t) => ret[t].guard_root \in Committed
        /\ \A u \in Threads :
             Unpublished(u) =>
               /\ frame[u].trie \notin Reachable(nodes, Committed)
               /\ \A t \in Threads : HoldsGuard(t) => ret[t].guard_root # frame[u].trie)
  /\ [][\A t \in Threads :
          (pc[t] = "get_lookup" /\ pc'[t] = "idle") =>
            /\ snapshots_' = snapshots_
            /\ \E key \in StoreKeys, version \in VersionArgs, T \in Types :
                 ret'[t] = StoreGet(nodes, vals, snapshots_, key, version, T)]_vars

\* C12 witness: a Get has returned a guard on the newest committed snapshot
\* while a writer holds a new Trie, computed and not yet appended, in which its
\* key has a value that the committed snapshots do not have.
C12_Witness ==
  \E t, u \in Threads :
    /\ pc[t] = "idle" /\ HoldsGuard(t) /\ ret[t].guard_root = Back(snapshots_)
    /\ pc[u] \in {"put_unique_lock", "put_push_back"} /\ Unpublished(u)
    /\ ~Absent(nodes, frame[u].trie, frame[u].key)
    /\ Absent(nodes, Back(snapshots_), frame[u].key)

\* C13: a Get with an explicit version that is not below the snapshot count
\* returns not found, does not fault, and leaves the snapshot sequence and the
\* version counter as they were.
C13_OutOfRangeNotFound ==
  [][\A t \in Threads :
       (pc[t] = "get_lookup" /\ pc'[t] = "idle") =>
         /\ ~fault' /\ snapshots_' = snapshots_ /\ version_' = version_
         /\ \A key \in StoreKeys, version \in VersionArgs, T \in Types :
              (version >= Len(snapshots_)
                 /\ ret'[t] = StoreGet(nodes, vals, snapshots_, key, version, T))
                => ~ret'[t].found]_vars

\* What the code does give: the same for every version but SIZE_MAX.
C13_BelowSizeMax ==
  [][\A t \in Threads :
       (pc[t] = "get_lookup" /\ pc'[t] = "idle") =>
         /\ ~fault' /\ snapshots_' = snapshots_ /\ version_' = version_
         /\ \A key \in StoreKeys, version \in VersionArgs \ {SIZE_MAX}, T \in Types :
              (version >= Len(snapshots_)
                 /\ ret'[t] = StoreGet(nodes, vals, snapshots_, key, version, T))
                => ~ret'[t].found]_vars

\* C14: the empty key is a key like any other.  No Put faults; the Trie a
\* Put("", v) returned holds v for "" and reads every other key as its receiver
\* does; and the Trie a Remove("") returned holds nothing for "".
C14_EmptyKeyValid ==
  /\ ~fault
  /\ \A i \in 1..Len(tries) :
       /\ (tries[i].op = "Put" /\ tries[i].key = <<>>) =>
            /\ Lookup(nodes, vals, tries[i].root, <<>>, tries[i].value.type).value = tries[i].value
            /\ \A key \in Keys \ {<<>>}, T \in Types :
                 Lookup(nodes, vals, tries[i].root, key, T)
                   = Lookup(nodes, vals, tries[tries[i].from].root, key, T)
       /\ (tries[i].op = "Remove" /\ tries[i].key = <<>>) => Absent(nodes, tries[i].root, <<>>)

\* C15: pruning.  In every Trie the caller holds, every node below the root
\* that has no children carries a value, and a Trie in which no key holds a
\* value has a root without children.
C15_Pruned ==
  \A i \in 1..Len(tries) :
    LET root == tries[i].root IN
    /\ \A n \in Reachable(nodes, {root}) \ {root} :
         Empty(nodes[n].children_) => nodes[n].is_value_node_
    /\ (root # NullPtr /\ \A key \in Keys : Absent(nodes, root, key))
         => Empty(nodes[root].children_)

\* The first d characters of the key.
Prefix(key, d) == SubSeq(key, 1, d)

\* The characters off the path of the key at depth d: all but the next one.
OffPath(key, d) == IF d < Len(key) THEN Chars \ {key[d + 1]} ELSE Chars

\* C16: structural sharing.  In the step t2 = t.Put(k, v): every node on the
\* path of k in t2, from the root to the terminal node, is an object made in
\* this call and not reachable from t; every child reference off the path is
\* the reference the node at the same place in t has (none where t has no such
\* node); and no node reachable from t is changed.
C16_StructuralSharing ==
  [][(Len(tries') > Len(tries) /\ tries'[Len(tries')].op = "Put") =>
       LET new == tries'[Len(tries')]
           t == tries[new.from].root
           t2 == new.root
       IN /\ \A d \in 0..Len(new.key) :
               LET n1 == Walk(nodes, t, Prefix(new.key, d))
                   n2 == Walk(nodes', t2, Prefix(new.key, d))
               IN /\ n2 # NullPtr /\ n2 > Len(nodes)
                  /\ n2 \notin Reachable(nodes, {t})
                  /\ \A c \in OffPath(new.key, d) :
                       nodes'[n2].children_[c]
                         = IF n1 = NullPtr THEN NullPtr ELSE nodes[n1].children_[c]
          /\ \A n \in Reachable(nodes, {t}) : nodes'[n] = nodes[n]]_vars

\* C16 witness: a Trie made by a Put whose path passes a node of the receiver
\* that has a child off the path, and that child is shared by the two Tries.
C16_Witness ==
  \E i \in 1..Len(tries) :
    /\ tries[i].op = "Put"
    /\ \E d \in 0..Len(tries[i].key) :
         LET n1 == Walk(nodes, tries[tries[i].from].root, Prefix(tries[i].key, d))
             n2 == Walk(nodes, tries[i].root, Prefix(tries[i].key, d))
         IN /\ n1 # NullPtr /\ n2 # NullPtr /\ n1 # n2
            /\ \E c \in OffPath(tries[i].key, d) :
                 nodes[n1].children_[c] # NullPtr /\ nodes[n2].children_[c] = nodes[n1].children_[c]

\* C17: the snapshot sequence is never empty, its entry 0 is the empty Trie,
\* and no step shortens it or changes an entry it already has.
C17_SnapshotSequence ==
  /\ [](Len(snapshots_) >= 1 /\ snapshots_[1] = NullPtr)
  /\ [][/\ Len(snapshots_') >= Len(snapshots_)
        /\ \A i \in 1..Len(snapshots_) : snapshots_'[i] = snapshots_[i]]_vars

\* C17 witness: a Put and a Remove have each appended a snapshot and a further
\* writer is about to append.
C17_Witness ==
  /\ Len(snapshots_) >= 3
  /\ \E n, m \in 1..Len(log) : log[n].op = "Put" /\ log[m].op = "Remove"
  /\ \E t \in Threads : pc[t] \in {"put_push_back", "remove_push_back"}

\* The thread is running Trie::Put or Trie::Remove for the store (and the
\* process has not died in it).
Cloning(u) == ~fault /\ pc[u] \in {"put_compute", "remove_compute"}

\* C18: while a writer is computing its new Trie nobody holds snapshots_lock_
\* exclusive, a Get that is waiting for the shared lock can take it and a Get
\* that holds it can finish; the lock is held exclusive only by a writer at its
\* push_back.
C18_ReadersNotBlocked ==
  /\ \A u, t \in Threads :
       Cloning(u) =>
         /\ snapshots_lock_.writer = 0
         /\ pc[t] = "get_shared_lock" => ENABLED GetLockShared(t)
         /\ pc[t] = "get_lookup" =>
              ENABLED (\E key \in StoreKeys, version \in VersionArgs, T \in Types :
                         GetLookup(t, key, version, T))
  /\ \A u \in Threads :
       snapshots_lock_.writer = u => pc[u] \in {"put_push_back", "remove_push_back"}
  /\ snapshots_lock_.writer \in Threads \cup {0}

\* C18 witness: a writer inside Remove holds the lock shared and is about to
\* run Trie::Remove, and a Get holds the lock shared with it.
C18_Witness ==
  \E u, t \in Threads :
    /\ pc[u] = "remove_compute" /\ pc[t] = "get_lookup"
    /\ snapshots_lock_.readers = {u, t} /\ u # t
    /\ Len(snapshots_) >= 2

\* The thread is at a statement that takes snapshots_lock_.
TakesSnapshotsLock(t) ==
  pc[t] \in {"put_shared_lock", "put_unique_lock", "remove_shared_lock", "remove_unique_lock",
             "get_shared_lock"}

\* C19: deadlock freedom.  Whenever some call is pending, some thread inside a
\* call can take a step, and no thread is about to take snapshots_lock_ while
\* it holds it.
C19_DeadlockFree ==
  /\ (\E t \in Threads : pc[t] # "idle") =>
       \E t \in Threads : pc[t] # "idle" /\ ENABLED InCall(t)
  /\ \A t \in Threads :
       TakesSnapshotsLock(t) => (t \notin snapshots_lock_.readers /\ snapshots_lock_.writer # t)

\* What the locks alone give: the same as long as the process has not died.
C19_NoLockDeadlock ==
  ~fault => C19_DeadlockFree

\* Under a fair scheduler every call returns or the process dies.
C19_ReturnsOrDies ==
  \A t \in Threads : (pc[t] # "idle") ~> (pc[t] = "idle" \/ fault)

\* C20: Clone is a faithful shallow copy.  For every node reachable in a Trie
\* the caller holds, its clone has the same child references, the same value
\* reference and type, and the same has-value flag: a cleared flag stays cleared.
C20_CloneIsFaithful ==
  \A i \in 1..Len(tries) :
    \A n \in Reachable(nodes, {tries[i].root}) :
      LET c == Clone(nodes[n]) IN
      /\ c.children_ = nodes[n].children_
      /\ c.withValue = nodes[n].withValue
      /\ c.vtype = nodes[n].vtype
      /\ c.value_ = nodes[n].value_
      /\ c.is_value_node_ = nodes[n].is_value_node_

====
